---- MODULE Spec2Model ----
(***************************************************************************)
(* Model of the push-message handler of the Anova Precision Oven           *)
(* integration: HAAnovaOven._handle_ha_state_updates                       *)
(* (custom_components/anova_oven/coordinator.py) together with the         *)
(* pydantic models it validates the payload with                           *)
(* (custom_components/anova_oven/models.py), and of the poll cycle         *)
(* AnovaOvenCoordinator._async_update_data with the unload path            *)
(* (custom_components/anova_oven/__init__.py).                             *)
(*                                                                         *)
(* Python's None / "key not in dict" / "attribute unset" is modelled as    *)
(* the empty sequence <<>>, a present value v as the one-element sequence  *)
(* <<v>>.  Raw JSON objects are functions from key strings to values, so   *)
(* that `'k' in d` is "k" \in DOMAIN d.                                    *)
(***************************************************************************)
EXTENDS Integers, Sequences, FiniteSets, TLC

VARIABLES
    devices,            \* HAAnovaOven._devices: id -> <<>> (unknown) or <<Device.state>>
    device_state_data,  \* HAAnovaOven._device_state_data: id -> <<>> (no entry) or <<state_data>>
    last_call,          \* history: <<>> or <<record of the last handler invocation>>
    pc,                 \* position of the running _async_update_data ("idle": none running)
    initial_setup_done, \* AnovaOvenCoordinator._initial_setup_done
    is_connected,       \* anova_oven.client.is_connected
    recipe_library,     \* AnovaOvenCoordinator.recipe_library: <<>> or <<set of recipe ids>>
    config_entry,       \* life cycle of the config entry (setup, loaded, unload steps)
    refresh_count,      \* history: number of refresh cycles started
    discover_calls,     \* history: number of discover_devices() calls made
    cycle,              \* history: the calls and the result of the current / last cycle
    coordinator_data,   \* AnovaOvenCoordinator.data: <<>> (None) or <<"_devices">> (the dict)
    last_command,       \* history: <<>> or <<record of the last command method called>>
    last_unload,        \* history: <<>> or <<unload_ok of the last async_unload_entry>>
    not_shut_down       \* history: earlier coordinators of the entry never shut down

ovenVars == <<devices, device_state_data, last_call>>

entryVars == <<last_command, last_unload, not_shut_down>>

coordinatorVars ==
    <<pc, initial_setup_done, is_connected, recipe_library, config_entry,
      refresh_count, discover_calls, cycle, coordinator_data, entryVars>>

vars == <<devices, device_state_data, last_call, pc, initial_setup_done, is_connected,
          recipe_library, config_entry, refresh_count, discover_calls, cycle,
          coordinator_data, last_command, last_unload, not_shut_down>>

----------------------------------------------------------------------------
(* Bounds of the model *)

MaxVersion == 5

\* number of refresh cycles a behaviour starts
MaxRefreshes == 3

\* ids that occur in push messages; Paired are the ovens paired with the
\* account (the ones a discovery round returns), the other id is never known
DeviceIds == {"D1", "D2"}

Paired == {"D1"}

Versions == {MaxVersion - 1, MaxVersion}

Timestamps == {"t1"}

----------------------------------------------------------------------------
(* Option values and raw dictionaries *)

None == <<>>

Some(v) == <<v>>

EmptyDict == [k \in {} |-> 0]

\* one optional key of a raw JSON object
Opt(k, o) == IF o = None THEN EmptyDict ELSE k :> o[1]

\* dict.get(k, {}) for a key holding an object
GetDict(d, k) == IF k \in DOMAIN d THEN d[k] ELSE EmptyDict

\* dict.get(k) for a key holding a scalar
Get(d, k) == IF k \in DOMAIN d THEN Some(d[k]) ELSE None

----------------------------------------------------------------------------
(* DeviceState enum and the mode table of the handler *)

DeviceState == {"idle", "preheating", "cooking", "paused", "completed", "error"}

state_mapping ==
    ("cook" :> "cooking") @@ ("cooking" :> "cooking") @@
    ("preheat" :> "preheating") @@ ("preheating" :> "preheating") @@
    ("idle" :> "idle") @@ ("paused" :> "paused") @@
    ("completed" :> "completed") @@ ("error" :> "error")

\* variant: the mode string is looked up without lower-casing
LowerOmitted(s) == s

\* str.lower() on the mode strings of the model
Lower(s) ==
    CASE s = "COOK" -> "cook"
      [] s = "Paused" -> "paused"
      [] OTHER -> s

\* state_mapping.get(mode, DeviceState.IDLE)
MappedState(mode) ==
    IF mode \in DOMAIN state_mapping THEN state_mapping[mode] ELSE "idle"

----------------------------------------------------------------------------
(* Push messages.  A message is described by its command, the two device   *)
(* id keys, the dialect (where the content keys sit) and the content keys  *)
(* themselves; RawPayload builds the JSON object the handler receives.     *)

\* raw 'nodes' objects: the keys of the Nodes model, each present or absent
RawNodes(n) ==
    Opt("temperatureBulbs", n.temperatureBulbs) @@
    Opt("temperatureProbe", n.temperatureProbe) @@
    Opt("steamGenerators", n.steamGenerators) @@
    Opt("timer", n.timer) @@
    Opt("fan", n.fan)

\* raw 'state' object (mode, temperatureUnit, ...): only the mode is modelled
RawState(mode) == "mode" :> mode

\* raw 'systemInfo' object
RawSystemInfo(si) == Opt("online", si.online)

\* the content keys of a message, as the keys of one JSON object
Content(m) ==
    (IF m.nodes = None THEN EmptyDict ELSE "nodes" :> RawNodes(m.nodes[1])) @@
    (IF m.state = None THEN EmptyDict ELSE "state" :> RawState(m.state[1])) @@
    (IF m.systemInfo = None THEN EmptyDict
        ELSE "systemInfo" :> RawSystemInfo(m.systemInfo[1])) @@
    Opt("version", m.version) @@
    Opt("updatedTimestamp", m.updatedTimestamp)

\* nested dialect: everything under the payload's 'state' wrapper;
\* flat dialect: the same keys at payload top level
RawPayload(m) ==
    Opt("cookerId", m.cookerId) @@ Opt("id", m.id) @@
    (IF m.dialect = "nested" THEN "state" :> Content(m) ELSE Content(m))

\* the decoded message handed to the callback
RawMessage(m) == ("command" :> m.command) @@ ("payload" :> RawPayload(m))

----------------------------------------------------------------------------
(* pydantic validation (models.py) *)

\* Nodes.model_validate raises unless the required fields are present
NodesValid(raw) ==
    {"temperatureBulbs", "steamGenerators", "timer", "fan"} \subseteq DOMAIN raw

\* the validated Nodes object: required fields set, optional ones None when absent
NodesValidate(raw) ==
    [temperature_bulbs |-> raw["temperatureBulbs"],
     temperature_probe |-> Get(raw, "temperatureProbe"),
     steam_generators  |-> raw["steamGenerators"],
     timer             |-> raw["timer"],
     fan               |-> raw["fan"]]

\* State / OvenState: mode is a required string
StateValid(raw) == "mode" \in DOMAIN raw

StateValidate(raw) == [mode |-> raw["mode"]]

\* SystemInfo: online is required
SystemInfoValid(raw) == "online" \in DOMAIN raw

SystemInfoValidate(raw) == [online |-> raw["online"]]

----------------------------------------------------------------------------
(* HAAnovaOven._handle_ha_state_updates, statement by statement.  The      *)
(* execution record e carries the device's state_data dict (sd), the       *)
(* device's Device.state (state), the local `updated` and whether an       *)
(* exception has been raised inside the try block (raised).                *)

EmptyStateData ==
    [nodes |-> None, state_info |-> None, system_info |-> None,
     version |-> None, updated_timestamp |-> None]

\* variant: falls back to a default oven when the payload names none
DeviceIdOrDefault(raw_payload) ==
    IF "cookerId" \in DOMAIN raw_payload THEN Some(raw_payload["cookerId"])
    ELSE Some(CHOOSE d \in Paired : TRUE)

\* device_id = raw_payload.get('cookerId')
DeviceIdOf(raw_payload) == Get(raw_payload, "cookerId")

\* nested_state = raw_payload.get('state', {})
NestedState(raw_payload) == GetDict(raw_payload, "state")

\* variant: the storage is re-initialised on every message
ResetStateData(entry) == EmptyStateData

\* variant: a new entry starts with a defaulted version
DefaultedStateData(entry) ==
    IF entry = None THEN [EmptyStateData EXCEPT !.version = Some(0)] ELSE entry[1]

\* if device_id not in self._device_state_data: self._device_state_data[device_id] = {}
InitStateData(entry) == IF entry = None THEN EmptyStateData ELSE entry[1]

PutNodes(e, raw) ==
    IF NodesValid(raw)
    THEN [e EXCEPT !.sd.nodes = Some(NodesValidate(raw)), !.updated = TRUE]
    ELSE [e EXCEPT !.raised = TRUE]

\* variant: nodes of a message older than the stored version are skipped
StoreNodesIfFresh(e, raw_payload, nested_state) ==
    IF /\ e.sd.version # None /\ "version" \in DOMAIN nested_state
       /\ nested_state["version"] < e.sd.version[1]
    THEN e
    ELSE IF "nodes" \in DOMAIN nested_state THEN PutNodes(e, nested_state["nodes"])
    ELSE IF "nodes" \in DOMAIN raw_payload THEN PutNodes(e, raw_payload["nodes"])
    ELSE e

\* variant: `updated` is set only when the stored nodes actually differ
StoreNodesIfChanged(e, raw_payload, nested_state) ==
    LET raw == IF "nodes" \in DOMAIN nested_state THEN nested_state["nodes"]
               ELSE raw_payload["nodes"]
    IN  IF "nodes" \notin DOMAIN nested_state /\ "nodes" \notin DOMAIN raw_payload THEN e
        ELSE IF ~NodesValid(raw) THEN [e EXCEPT !.raised = TRUE]
        ELSE [e EXCEPT !.sd.nodes = Some(NodesValidate(raw)),
                       !.updated = (e.sd.nodes # Some(NodesValidate(raw)))]

StoreNodes(e, raw_payload, nested_state) ==
    IF "nodes" \in DOMAIN nested_state THEN PutNodes(e, nested_state["nodes"])
    ELSE IF "nodes" \in DOMAIN raw_payload THEN PutNodes(e, raw_payload["nodes"])
    ELSE e

\* mode_str = nested_state['state'].get('mode'); if mode_str: ...
DeriveState(old, mode_str) ==
    IF mode_str = None \/ mode_str = Some("") THEN old
    ELSE MappedState(Lower(mode_str[1]))

StoreStateInfo(e, nested_state) ==
    IF e.raised \/ "state" \notin DOMAIN nested_state THEN e
    ELSE IF ~StateValid(nested_state["state"]) THEN [e EXCEPT !.raised = TRUE]
    ELSE [e EXCEPT !.sd.state_info = Some(StateValidate(nested_state["state"])),
                   !.state = DeriveState(e.state, Get(nested_state["state"], "mode")),
                   !.updated = TRUE]

\* variant: system info of a message older than the stored version is skipped
StoreSystemInfoIfFresh(e, nested_state) ==
    IF e.raised \/ "systemInfo" \notin DOMAIN nested_state THEN e
    ELSE IF /\ e.sd.version # None /\ "version" \in DOMAIN nested_state
            /\ nested_state["version"] < e.sd.version[1]
    THEN e
    ELSE IF ~SystemInfoValid(nested_state["systemInfo"]) THEN [e EXCEPT !.raised = TRUE]
    ELSE [e EXCEPT !.sd.system_info = Some(SystemInfoValidate(nested_state["systemInfo"])),
                   !.updated = TRUE]

StoreSystemInfo(e, nested_state) ==
    IF e.raised \/ "systemInfo" \notin DOMAIN nested_state THEN e
    ELSE IF ~SystemInfoValid(nested_state["systemInfo"]) THEN [e EXCEPT !.raised = TRUE]
    ELSE [e EXCEPT !.sd.system_info = Some(SystemInfoValidate(nested_state["systemInfo"])),
                   !.updated = TRUE]

StoreVersion(e, nested_state) ==
    IF e.raised \/ "version" \notin DOMAIN nested_state THEN e
    ELSE [e EXCEPT !.sd.version = Some(nested_state["version"]), !.updated = TRUE]

StoreTimestamp(e, nested_state) ==
    IF e.raised \/ "updatedTimestamp" \notin DOMAIN nested_state THEN e
    ELSE [e EXCEPT !.sd.updated_timestamp = Some(nested_state["updatedTimestamp"]),
                   !.updated = TRUE]

\* variant: the callback is invoked whether or not a key was stored
NotifyAlways(e) ==
    IF e.raised THEN e
    ELSE [e EXCEPT !.callbacks = @ + 1,
                   !.seen = Some([sd |-> e.sd, state |-> e.state])]

\* if updated: self._update_callback(); seen is what the callback finds stored
Notify(e) ==
    IF e.raised \/ ~e.updated THEN e
    ELSE [e EXCEPT !.callbacks = @ + 1,
                   !.seen = Some([sd |-> e.sd, state |-> e.state])]

\* variant: the callback is invoked after every key that was stored
MergePayloadNotifyingEach(entry, dev_state, raw_payload) ==
    LET nested_state == NestedState(raw_payload)
        e0 == [sd |-> InitStateData(entry), state |-> dev_state,
               updated |-> FALSE, raised |-> FALSE, callbacks |-> 0, seen |-> None]
        e1 == Notify(StoreNodes(e0, raw_payload, nested_state))
        e2 == Notify(StoreStateInfo(e1, nested_state))
        e3 == Notify(StoreSystemInfo(e2, nested_state))
        e4 == Notify(StoreVersion(e3, nested_state))
    IN  Notify(StoreTimestamp(e4, nested_state))

\* the body of the try block once the device id has been accepted
MergePayload(entry, dev_state, raw_payload) ==
    LET nested_state == NestedState(raw_payload)
        e0 == [sd |-> InitStateData(entry), state |-> dev_state,
               updated |-> FALSE, raised |-> FALSE, callbacks |-> 0, seen |-> None]
        e1 == StoreNodes(e0, raw_payload, nested_state)
        e2 == StoreStateInfo(e1, nested_state)
        e3 == StoreSystemInfo(e2, nested_state)
        e4 == StoreVersion(e3, nested_state)
    IN  Notify(StoreTimestamp(e4, nested_state))

\* except Exception as e: every exception of the try block is caught and logged
ExceptCatches == TRUE

\* variant: the ovens share one state_data dict
WriteBackShared(data, d, sd) ==
    [x \in DOMAIN data |-> IF x = d \/ data[x] # None THEN Some(sd) ELSE None]

\* state_data = self._device_state_data[device_id]: the writes of the handler
\* go to the dict stored under the device id
WriteBack(data, d, sd) == [data EXCEPT ![d] = Some(sd)]

\* The whole handler as a function of the object's fields and the message.
\* outcome: "ignored" (other command), "no_id", "unknown", "failed" (exception
\* caught by the except clause), "merged".  called: _update_callback() ran,
\* callbacks times, and found the state seen.
\* escaped: an exception left the handler (the try/except catches Exception).
HandleResult(devs, data, data_msg) ==
    LET raw_payload == GetDict(data_msg, "payload")
        device_id   == DeviceIdOf(raw_payload)
        unchanged(o) == [devices |-> devs, data |-> data, called |-> FALSE,
                         callbacks |-> 0, seen |-> None,
                         escaped |-> FALSE, outcome |-> o]
    IN  IF Get(data_msg, "command") # Some("EVENT_APO_STATE") THEN unchanged("ignored")
        ELSE IF device_id = None THEN unchanged("no_id")
        ELSE IF devs[device_id[1]] = None THEN unchanged("unknown")
        ELSE LET d == device_id[1]
                 e == MergePayload(data[d], devs[d][1], raw_payload)
             IN  [devices |-> [devs EXCEPT ![d] = Some(e.state)],
                  data    |-> WriteBack(data, d, e.sd),
                  called  |-> e.callbacks > 0,
                  callbacks |-> e.callbacks,
                  seen    |-> e.seen,
                  escaped |-> e.raised /\ ~ExceptCatches,
                  outcome |-> IF e.raised THEN "failed" ELSE "merged"]

\* get_state_data(device_id): self._device_state_data.get(device_id, {})
get_state_data(data, d) == IF data[d] = None THEN EmptyStateData ELSE data[d][1]

----------------------------------------------------------------------------
(* AnovaOvenCoordinator._async_update_data.  The coroutine is suspended at  *)
(* its awaits (connect, discover_devices, _load_recipes): pc names the      *)
(* await it is suspended at, "idle" that no cycle is running.               *)

Recipes == {"roast_chicken"}

\* variant: initial setup calls connect() whatever the channel reports
FirstAwaitAlwaysConnects(setup_done, connected) ==
    IF ~setup_done THEN "connect"
    ELSE IF ~connected THEN "connect" ELSE "idle"

\* variant: a cycle discovers whether or not the channel is connected
FirstAwaitAlwaysDiscovers(setup_done, connected) ==
    IF ~connected THEN "connect" ELSE "discover"

\* the first await of a cycle: 'if not self._initial_setup_done:' with
\* 'if not ...is_connected:', 'else:' with 'if not ...is_connected:'
FirstAwait(setup_done, connected) ==
    IF ~setup_done
    THEN IF ~connected THEN "connect" ELSE "discover"
    ELSE IF ~connected THEN "connect" ELSE "idle"

\* variant: the initial setup does not load the recipes
AfterDiscoverSkipsRecipes(setup_done, library) == "idle"

\* what follows a successful discover_devices(): 'if not self.recipe_library:
\* await self._load_recipes()' in the initial setup, the return otherwise
AfterDiscover(setup_done, library) ==
    IF ~setup_done /\ library = None THEN "load_recipes" ELSE "idle"

\* variant: an error of the loader leaves the library unset
LoadRecipesUnset(outcome) ==
    CASE outcome = "loaded" -> Some(Recipes)
      [] outcome = "not_found" -> Some({})
      [] OTHER -> None

\* _load_recipes: the library read from the file, an empty library when the
\* default file is missing or the loader raises
load_recipes(outcome) ==
    IF outcome = "loaded" THEN Some(Recipes) ELSE Some({})

\* variant: the error is logged and the devices are returned
OnExceptionSwallowed(err) == "ok"

\* except Exception as err: raise UpdateFailed(...) from err
OnException(err) == "UpdateFailed"

\* variant: a discovery round builds new Device objects for the paired ovens
DiscoveredReplacing(devs) ==
    [d \in DeviceIds |-> IF d \in Paired THEN Some("idle") ELSE devs[d]]

\* a successful discovery round: the paired ovens not yet known are added to
\* _devices (Device.state defaults to IDLE), the known ones are kept
discover_devices(devs) ==
    [d \in DeviceIds |->
        IF d \in Paired /\ devs[d] = None THEN Some("idle") ELSE devs[d]]

\* hass.data[DOMAIN] holds the coordinator
InHassData(e) == e = "loaded"

\* the refresh timer of the coordinator has not been stopped
TimerRunning(e) == e \in {"loaded", "popped", "disconnected"}

----------------------------------------------------------------------------
(* Input families *)

ModeStrings ==
    DOMAIN state_mapping \cup {"unknownfoo", "COOK", "Paused", ""}

NodesFull(remaining, probe) ==
    [temperatureBulbs |-> Some([dry_current |-> 175]),
     temperatureProbe |-> probe,
     steamGenerators  |-> Some([mode |-> "idle"]),
     timer            |-> Some([initial |-> 3600, current |-> remaining]),
     fan              |-> Some([speed |-> 100])]

\* a nodes object that carries the timer only (a partial update)
NodesTimerOnly(remaining) ==
    [temperatureBulbs |-> None, temperatureProbe |-> None, steamGenerators |-> None,
     timer |-> Some([initial |-> 3600, current |-> remaining]), fan |-> None]

NodesInputs ==
    {NodesFull(1800, Some([connected |-> TRUE])), NodesFull(1750, None),
     NodesTimerOnly(1750)}

SystemInfoInputs == {[online |-> Some(TRUE)], [online |-> None]}

OptOf(S) == {None} \cup {Some(v) : v \in S}

\* every combination of content keys over the given values
Contents(nodes, modes, infos, versions, stamps) ==
    [nodes : OptOf(nodes), state : OptOf(modes), systemInfo : OptOf(infos),
     version : OptOf(versions), updatedTimestamp : OptOf(stamps)]

Msg(command, cookerId, id, dialect, c) ==
    [command |-> command, cookerId |-> cookerId, id |-> id, dialect |-> dialect,
     nodes |-> c.nodes, state |-> c.state, systemInfo |-> c.systemInfo,
     version |-> c.version, updatedTimestamp |-> c.updatedTimestamp]

StateEvent(cookerId, id, dialect, c) == Msg("EVENT_APO_STATE", cookerId, id, dialect, c)

\* messages of another command
OtherCommands ==
    {Msg("EVENT_APO_WIFI_LIST", Some(d), None, "nested", c) : d \in Paired,
        c \in Contents({}, {"cook"}, {}, {}, {})}

\* Merge family: nested state events addressed by cookerId to the paired oven,
\* every combination of content keys, valid and invalid sub-structures
MergeMessages ==
    {StateEvent(Some(d), None, "nested", c) : d \in Paired,
        c \in Contents(NodesInputs, {"cook"}, SystemInfoInputs, Versions, {})}
    \cup OtherCommands

\* Dialect family: the same contents in both dialects, and under every id
\* convention ('cookerId', 'id' only, neither key, cookerId of an unpaired oven)
DialectMessages ==
    {StateEvent(Some(d), None, dl, c) :
        d \in Paired, dl \in {"nested", "flat"},
        c \in Contents({NodesFull(1800, None)}, {"cook"}, {[online |-> Some(TRUE)]},
                       {MaxVersion}, Timestamps)}
    \cup
    {StateEvent(k[1], k[2], "nested", c) :
        k \in {<<None, Some(d)>> : d \in Paired} \cup {<<None, None>>}
              \cup {<<Some(d), None>> : d \in DeviceIds \ Paired},
        c \in Contents({NodesFull(1800, None)}, {"cook"}, {}, {MaxVersion}, {})}
    \cup OtherCommands

\* Mode family: every mode string, with and without a version
ModeMessages ==
    {StateEvent(Some(d), None, "nested", c) : d \in Paired,
        c \in Contents({}, ModeStrings, {}, {MaxVersion}, {})}
    \cup OtherCommands

\* Isolation family: state events for either oven, with valid and invalid
\* sub-structures
IsolationMessages ==
    {StateEvent(Some(d), None, "nested", c) : d \in DeviceIds,
        c \in Contents({NodesFull(1800, None), NodesTimerOnly(1750)}, {"cook"},
                       SystemInfoInputs, {}, {})}
    \cup OtherCommands

\* Coordinator family: the pushes that arrive between the steps of the poll
CoordinatorMessages ==
    {StateEvent(Some(d), None, "nested", c) : d \in Paired,
        c \in Contents({NodesFull(1800, None)}, {"cook"}, {}, {}, {})}
    \cup OtherCommands

----------------------------------------------------------------------------
(* The state machine *)

\* AnovaOvenCoordinator.__init__: no setup done, no library, channel closed
InitCoordinator ==
    /\ pc = "idle"
    /\ initial_setup_done = FALSE
    /\ is_connected = FALSE
    /\ recipe_library = None
    /\ config_entry = "setup"
    /\ refresh_count = 0
    /\ discover_calls = 0
    /\ cycle = [calls |-> <<>>, result |-> "none", steady |-> FALSE,
                found_connected |-> FALSE, retry_due |-> None, load_outcome |-> None,
                pre_devices |-> [d \in DeviceIds |-> None]]
    /\ coordinator_data = None
    /\ last_command = None
    /\ last_unload = None
    /\ not_shut_down = 0

Init ==
    /\ devices = [d \in DeviceIds |-> None]
    /\ device_state_data = [d \in DeviceIds |-> None]
    /\ last_call = None
    /\ InitCoordinator

\* a discovery round adds a paired oven to _devices; Device.state defaults to IDLE
Discover(d) ==
    /\ devices[d] = None
    /\ devices' = [devices EXCEPT ![d] = Some("idle")]
    /\ UNCHANGED <<device_state_data, last_call, coordinatorVars>>

\* _handle_ha_state_updates runs on message m
HandlerStep(m) ==
    LET r == HandleResult(devices, device_state_data, RawMessage(m))
    IN  /\ devices' = r.devices
        /\ device_state_data' = r.data
        /\ last_call' = Some([msg |-> m, pre_devices |-> devices,
                              pre_data |-> device_state_data,
                              called |-> r.called, callbacks |-> r.callbacks,
                              seen |-> r.seen, escaped |-> r.escaped,
                              outcome |-> r.outcome])

\* the push channel delivers message m to _handle_ha_state_updates
HandleStateUpdates(m) == HandlerStep(m) /\ UNCHANGED coordinatorVars

Next ==
    \/ \E d \in Paired : Discover(d)
    \/ \E m \in MergeMessages : HandleStateUpdates(m)

Spec == Init /\ [][Next]_vars

NextDialect ==
    \/ \E d \in Paired : Discover(d)
    \/ \E m \in DialectMessages : HandleStateUpdates(m)

SpecDialect == Init /\ [][NextDialect]_vars

NextModes ==
    \/ \E d \in Paired : Discover(d)
    \/ \E m \in ModeMessages : HandleStateUpdates(m)

SpecModes == Init /\ [][NextModes]_vars

NextIsolation ==
    \/ \E d \in DeviceIds : Discover(d)
    \/ \E m \in IsolationMessages : HandleStateUpdates(m)

SpecIsolation == Init /\ [][NextIsolation]_vars

\* async_setup_entry awaits the first refresh: it raises ConfigEntryNotReady
\* when the refresh failed and registers the coordinator only below that
AfterFirstRefreshAlwaysRegisters(e, ok) == IF e = "setup" THEN "loaded" ELSE e

AfterFirstRefresh(e, ok) ==
    IF e = "setup" THEN IF ok THEN "loaded" ELSE "not_ready" ELSE e

\* DataUpdateCoordinator stores what _async_update_data returned, the _devices
\* dict itself, and keeps the old data when it raised
AfterUpdateData(old, ok) == IF ok THEN Some("_devices") ELSE old

\* a refresh starts _async_update_data, which runs up to its first await or,
\* with setup done and the channel connected, to its return
UpdateDataBegin ==
    /\ pc = "idle" /\ config_entry # "shutdown"
    /\ refresh_count < MaxRefreshes
    /\ LET next == FirstAwait(initial_setup_done, is_connected)
       IN  /\ pc' = next
           /\ cycle' = [cycle EXCEPT !.calls = <<>>,
                                     !.result = IF next = "idle" THEN "ok" ELSE "running",
                                     !.steady = initial_setup_done,
                                     !.found_connected = is_connected,
                                     !.pre_devices = devices]
           /\ config_entry' = IF next = "idle" THEN AfterFirstRefresh(config_entry, TRUE)
                              ELSE config_entry
           /\ coordinator_data' = IF next = "idle"
                                  THEN AfterUpdateData(coordinator_data, TRUE)
                                  ELSE coordinator_data
    /\ refresh_count' = refresh_count + 1
    /\ UNCHANGED <<ovenVars, initial_setup_done, is_connected, recipe_library,
                   discover_calls, entryVars>>

\* await self.anova_oven.connect() returns or raises
ConnectDone(ok) ==
    /\ pc = "connect"
    /\ IF ok
       THEN /\ is_connected' = TRUE
            /\ pc' = "discover"
            /\ cycle' = [cycle EXCEPT !.calls = Append(@, "connect"),
                            !.retry_due = IF @ = Some("connect") THEN None ELSE @]
            /\ UNCHANGED <<config_entry, coordinator_data>>
       ELSE /\ is_connected' = is_connected
            /\ pc' = "idle"
            /\ cycle' = [cycle EXCEPT !.calls = Append(@, "connect"),
                            !.result = OnException("connect"),
                            !.retry_due = Some("connect")]
            /\ config_entry' = AfterFirstRefresh(config_entry, FALSE)
            /\ coordinator_data' = AfterUpdateData(coordinator_data, FALSE)
    /\ UNCHANGED <<ovenVars, initial_setup_done, recipe_library,
                   refresh_count, discover_calls, entryVars>>

\* await self.anova_oven.discover_devices() returns or raises
DiscoverDevicesDone(ok) ==
    /\ pc = "discover"
    /\ discover_calls' = discover_calls + 1
    /\ IF ok
       THEN LET next == AfterDiscover(initial_setup_done, recipe_library)
            IN  /\ devices' = discover_devices(devices)
                /\ pc' = next
                /\ initial_setup_done' = (initial_setup_done \/ next = "idle")
                /\ cycle' = [cycle EXCEPT !.calls = Append(@, "discover"),
                                !.result = IF next = "idle" THEN "ok" ELSE @,
                                !.retry_due = None]
                /\ config_entry' = IF next = "idle"
                                   THEN AfterFirstRefresh(config_entry, TRUE)
                                   ELSE config_entry
                /\ coordinator_data' = IF next = "idle"
                                  THEN AfterUpdateData(coordinator_data, TRUE)
                                  ELSE coordinator_data
       ELSE /\ devices' = devices
            /\ pc' = "idle"
            /\ initial_setup_done' = initial_setup_done
            /\ cycle' = [cycle EXCEPT !.calls = Append(@, "discover"),
                            !.result = OnException("discover"),
                            !.retry_due = Some("discover")]
            /\ config_entry' = AfterFirstRefresh(config_entry, FALSE)
            /\ coordinator_data' = AfterUpdateData(coordinator_data, FALSE)
    /\ UNCHANGED <<device_state_data, last_call, is_connected, recipe_library,
                   refresh_count, entryVars>>

\* await self._load_recipes() returns; self._initial_setup_done = True
LoadRecipesDone(outcome) ==
    /\ pc = "load_recipes"
    /\ recipe_library' = load_recipes(outcome)
    /\ initial_setup_done' = TRUE
    /\ pc' = "idle"
    /\ cycle' = [cycle EXCEPT !.calls = Append(@, "load_recipes"), !.result = "ok",
                              !.load_outcome = Some(outcome)]
    /\ config_entry' = AfterFirstRefresh(config_entry, TRUE)
    /\ coordinator_data' = AfterUpdateData(coordinator_data, TRUE)
    /\ UNCHANGED <<ovenVars, is_connected, refresh_count, discover_calls, entryVars>>

\* the push channel loses its connection
ChannelDrops ==
    /\ is_connected /\ config_entry # "shutdown"
    /\ is_connected' = FALSE
    /\ UNCHANGED <<ovenVars, pc, initial_setup_done, recipe_library, config_entry,
                   refresh_count, discover_calls, cycle, coordinator_data, entryVars>>

\* async_set_updated_data_from_callback: async_set_updated_data(self.anova_oven._devices)
SetUpdatedData(old, called) == IF called THEN Some("_devices") ELSE old

\* a connected channel delivers message m to the registered callback, whose
\* update callback is async_set_updated_data_from_callback
Deliver(m) ==
    /\ is_connected
    /\ HandlerStep(m)
    /\ coordinator_data' = SetUpdatedData(coordinator_data, last_call'[1].called)
    /\ UNCHANGED <<pc, initial_setup_done, is_connected, recipe_library, config_entry,
                   refresh_count, discover_calls, cycle, entryVars>>

\* async_unload_entry pops the coordinator when the platforms unloaded
AfterUnloadAlwaysPops(e, unload_ok) == "popped"

AfterUnload(e, unload_ok) == IF unload_ok THEN "popped" ELSE e

\* async_unload_entry: the platforms are unloaded and, if that succeeded, the
\* coordinator is popped from hass.data and async_shutdown() is entered,
\* up to its first await
UnloadEntry(unload_ok) ==
    /\ config_entry = "loaded"
    /\ config_entry' = AfterUnload(config_entry, unload_ok)
    /\ last_unload' = Some(unload_ok)
    /\ UNCHANGED <<ovenVars, pc, initial_setup_done, is_connected, recipe_library,
                   refresh_count, discover_calls, cycle, coordinator_data, last_command,
                   not_shut_down>>

\* async_shutdown: await self.anova_oven.disconnect() returns
ShutdownDisconnect ==
    /\ config_entry = "popped"
    /\ is_connected' = FALSE
    /\ config_entry' = "disconnected"
    /\ UNCHANGED <<ovenVars, pc, initial_setup_done, recipe_library,
                   refresh_count, discover_calls, cycle, coordinator_data, entryVars>>

\* async_shutdown: await super().async_shutdown() stops the refresh timer
ShutdownSuper ==
    /\ config_entry = "disconnected"
    /\ config_entry' = "shutdown"
    /\ UNCHANGED <<ovenVars, pc, initial_setup_done, is_connected, recipe_library,
                   refresh_count, discover_calls, cycle, coordinator_data, entryVars>>

NextCoordinator ==
    \/ UpdateDataBegin
    \/ \E ok \in BOOLEAN : ConnectDone(ok)
    \/ \E ok \in BOOLEAN : DiscoverDevicesDone(ok)
    \/ \E outcome \in {"loaded", "not_found", "error"} : LoadRecipesDone(outcome)
    \/ ChannelDrops
    \/ \E m \in CoordinatorMessages : Deliver(m)
    \/ \E unload_ok \in BOOLEAN : UnloadEntry(unload_ok)
    \/ ShutdownDisconnect
    \/ ShutdownSuper

SpecCoordinator == Init /\ [][NextCoordinator]_vars

----------------------------------------------------------------------------
(* Commands and the life cycle of the config entry *)

\* get_device: return self.data.get(device_id); self.data is None until a
\* refresh returned or a push set it, and None has no attribute get
get_device(cdata, devs, device_id) ==
    IF cdata = None
    THEN [raised |-> "AttributeError", value |-> None]
    ELSE [raised |-> "none", value |-> devs[device_id]]

\* the command methods of the coordinator
Commands == {"start_cook", "stop_cook", "set_probe", "set_temperature_unit"}

\* async_start_cook, async_stop_cook, async_set_probe, async_set_temperature_unit:
\* await self.anova_oven.<command>(...) and then await self.async_request_refresh();
\* nothing catches what the sender raises, so the second line is not reached
async_command(command, ok) ==
    [command |-> command,
     raised |-> IF ok THEN "none" ELSE "AnovaError",
     refresh_requested |-> ok]

\* an entity or a service calls a command method; the sender succeeds or fails
Command(command, ok) ==
    /\ config_entry = "loaded"
    /\ last_command' = Some(async_command(command, ok))
    /\ UNCHANGED <<ovenVars, pc, initial_setup_done, is_connected, recipe_library,
                   config_entry, refresh_count, discover_calls, cycle,
                   coordinator_data, last_unload, not_shut_down>>

\* async_setup_entry constructs AnovaOvenCoordinator(hass, entry), whose
\* HAAnovaOven starts with no device, no state data and a channel not connected
NewCoordinator ==
    /\ devices' = [d \in DeviceIds |-> None]
    /\ device_state_data' = [d \in DeviceIds |-> None]
    /\ last_call' = None
    /\ pc' = "idle"
    /\ initial_setup_done' = FALSE
    /\ is_connected' = FALSE
    /\ recipe_library' = None
    /\ coordinator_data' = None
    /\ last_command' = None
    /\ cycle' = [calls |-> <<>>, result |-> "none", steady |-> FALSE,
                 found_connected |-> FALSE, retry_due |-> None, load_outcome |-> None,
                 pre_devices |-> [d \in DeviceIds |-> None]]
    /\ config_entry' = "setup"

\* async_setup_entry is called for an entry that was unloaded, up to the await
\* of the first refresh
SetupEntry ==
    /\ config_entry = "shutdown" /\ pc = "idle"
    /\ NewCoordinator
    /\ UNCHANGED <<refresh_count, discover_calls, last_unload, not_shut_down>>

\* async_reload_entry: await async_unload_entry(hass, entry), then
\* await async_setup_entry(hass, entry) whatever the unload returned; when the
\* platforms unloaded the old coordinator goes through async_shutdown first,
\* when they did not it is neither popped nor shut down
ReloadEntry(unload_ok) ==
    /\ config_entry = "loaded" /\ pc = "idle"
    /\ last_unload' = Some(unload_ok)
    /\ IF unload_ok
       THEN /\ config_entry' = AfterUnload(config_entry, unload_ok)
            /\ UNCHANGED <<ovenVars, pc, initial_setup_done, is_connected,
                           recipe_library, cycle, coordinator_data, last_command,
                           not_shut_down>>
       ELSE /\ NewCoordinator
            /\ not_shut_down' = not_shut_down + 1
    /\ UNCHANGED <<refresh_count, discover_calls>>

NextEntry ==
    \/ UpdateDataBegin
    \/ \E ok \in BOOLEAN : ConnectDone(ok)
    \/ \E ok \in BOOLEAN : DiscoverDevicesDone(ok)
    \/ \E outcome \in {"loaded", "not_found", "error"} : LoadRecipesDone(outcome)
    \/ ChannelDrops
    \/ \E command \in Commands, ok \in BOOLEAN : Command(command, ok)
    \/ \E unload_ok \in BOOLEAN : UnloadEntry(unload_ok)
    \/ ShutdownDisconnect
    \/ ShutdownSuper
    \/ SetupEntry
    \/ \E unload_ok \in BOOLEAN : ReloadEntry(unload_ok)

SpecEntry == Init /\ [][NextEntry]_vars

TypeOK ==
    /\ \A d \in DeviceIds : devices[d] \in OptOf(DeviceState)
    /\ last_call # None => last_call[1].outcome \in
           {"ignored", "no_id", "unknown", "failed", "merged"}
    /\ pc \in {"idle", "connect", "discover", "load_recipes"}
    /\ config_entry \in {"setup", "not_ready", "loaded", "popped", "disconnected",
                         "shutdown"}
    /\ coordinator_data \in {None, Some("_devices")}
    /\ last_unload \in {None, Some(TRUE), Some(FALSE)}
    /\ last_command # None => last_command[1].command \in Commands
    /\ not_shut_down \in 0..MaxRefreshes
    /\ recipe_library \in {None, Some({}), Some(Recipes)}
    /\ cycle.result \in {"none", "running", "ok", "UpdateFailed"}
    /\ discover_calls \in 0..refresh_count /\ refresh_count \in 0..MaxRefreshes

----------------------------------------------------------------------------
(* Vocabulary of the properties *)

Last == last_call[1]

IsStateEvent(m) == m.command = "EVENT_APO_STATE"

ContentKeys == {"nodes", "state", "systemInfo", "version", "updatedTimestamp"}

NodeGroups == {"temperatureBulbs", "temperatureProbe", "steamGenerators", "timer", "fan"}

\* the content keys a message carries
Keys(m) == {k \in ContentKeys : m[k] # None}

\* the stored value a content key is written to
StoredKey(entry, k) ==
    IF entry = None THEN None
    ELSE CASE k = "nodes" -> entry[1].nodes
           [] k = "state" -> entry[1].state_info
           [] k = "systemInfo" -> entry[1].system_info
           [] k = "version" -> entry[1].version
           [] k = "updatedTimestamp" -> entry[1].updated_timestamp

\* the stored value of one group of the nodes object
StoredNode(entry, g) ==
    IF entry = None \/ entry[1].nodes = None THEN None
    ELSE LET n == entry[1].nodes[1]
         IN  CASE g = "temperatureBulbs" -> Some(n.temperature_bulbs)
               [] g = "temperatureProbe" -> n.temperature_probe
               [] g = "steamGenerators" -> Some(n.steam_generators)
               [] g = "timer" -> Some(n.timer)
               [] g = "fan" -> Some(n.fan)

\* the current state is what the last call left (no discovery since)
Resulted ==
    /\ last_call # None
    /\ LET r == HandleResult(Last.pre_devices, Last.pre_data, RawMessage(Last.msg))
       IN  devices = r.devices /\ device_state_data = r.data

\* this step is a handler call that directly follows the last one
Follows == Resulted /\ last_call' # None /\ last_call' # last_call

\* both messages are state events for the same oven, named by cookerId
SameOven(m1, m2) ==
    /\ IsStateEvent(m1) /\ IsStateEvent(m2)
    /\ m1.cookerId # None /\ m1.cookerId = m2.cookerId

\* d1 is older than d2 (by message version) and both carry a common field group
StaleAfter(d2, d1) ==
    /\ SameOven(d1, d2)
    /\ d1.version # None /\ d2.version # None /\ d1.version[1] < d2.version[1]
    /\ Keys(d1) \cap Keys(d2) \cap {"nodes", "state", "systemInfo"} # {}

\* the result of processing m1 and then m2 from the given fields
InOrder(devs, data, m1, m2) ==
    LET r1 == HandleResult(devs, data, RawMessage(m1))
    IN  HandleResult(r1.devices, r1.data, RawMessage(m2))

----------------------------------------------------------------------------
(* C1 *)

----------------------------------------------------------------------------
(* C2 *)

\* whether the message carries the nodes group g
CarriesNode(m, g) == m.nodes # None /\ m.nodes[1][g] # None

----------------------------------------------------------------------------
(* C3 *)

----------------------------------------------------------------------------
(* C4 *)

NestedVariant(m) == [m EXCEPT !.dialect = "nested"]

\* C4: a flat-dialect message leaves the stored state, the operating mode and
\* the callback decision that the nested-dialect message of the same content
\* leaves.
C4_DialectEquivalence ==
    (Resulted /\ IsStateEvent(Last.msg) /\ Last.msg.dialect = "flat") =>
        LET r == HandleResult(Last.pre_devices, Last.pre_data,
                              RawMessage(NestedVariant(Last.msg)))
        IN  devices = r.devices /\ device_state_data = r.data /\ Last.called = r.called

----------------------------------------------------------------------------
(* C5 *)

----------------------------------------------------------------------------
(* C6 *)

----------------------------------------------------------------------------
(* C7 *)

\* the same message with the device id under 'cookerId' instead of 'id'
CookerIdVariant(m) == [m EXCEPT !.cookerId = m.id, !.id = None]

\* C7: a message that carries the id of a known device under 'id' only is
\* processed exactly like the same message carrying it under 'cookerId' only.
C7_EitherIdKey ==
    (Resulted /\ IsStateEvent(Last.msg) /\ Last.msg.cookerId = None /\ Last.msg.id # None
       /\ Last.pre_devices[Last.msg.id[1]] # None) =>
        LET r == HandleResult(Last.pre_devices, Last.pre_data,
                              RawMessage(CookerIdVariant(Last.msg)))
        IN  /\ devices = r.devices /\ device_state_data = r.data
            /\ Last.called = r.called /\ Last.outcome = r.outcome

----------------------------------------------------------------------------
(* C8 *)

\* C8: a state event with neither 'id' nor 'cookerId' is dropped: no stored
\* state is created or changed, no operating mode changes, the callback is
\* not invoked and no exception is raised.
C8_NoIdDropped ==
    (Resulted /\ IsStateEvent(Last.msg) /\ Last.msg.cookerId = None /\ Last.msg.id = None) =>
        /\ devices = Last.pre_devices
        /\ device_state_data = Last.pre_data
        /\ ~Last.called /\ ~Last.escaped
        /\ Last.outcome = "no_id"

\* a message full of content but without id arrived at a discovered oven
C8_Witness ==
    /\ Resulted /\ IsStateEvent(Last.msg)
    /\ Last.msg.cookerId = None /\ Last.msg.id = None
    /\ Keys(Last.msg) = {"nodes", "state", "version"}
    /\ \E d \in DeviceIds : devices[d] # None /\ device_state_data[d] # None

----------------------------------------------------------------------------
(* C9 *)

\* the device a message names, under either key
NamedDevice(m) == IF m.cookerId # None THEN m.cookerId ELSE m.id

----------------------------------------------------------------------------
(* C10 *)

\* C10 as stated: after a merged message whose state carries the mode string
\* m, the operating mode is the table's entry for m, and idle for every m
\* that is no key of the table.
C10_ModeTable_Original ==
    (Resulted /\ Last.outcome = "merged" /\ Last.msg.state # None) =>
        LET m == Last.msg.state[1]
        IN  devices[Last.msg.cookerId[1]] =
              Some(CASE m \in {"cook", "cooking"} -> "cooking"
                     [] m \in {"preheat", "preheating"} -> "preheating"
                     [] m \in {"paused", "completed", "error"} -> m
                     [] OTHER -> "idle")

\* C10 amended: the table is applied to the lower-cased mode string: after a
\* merged message whose state carries a non-empty mode string m, the
\* operating mode is the table's entry for lower(m), and idle when lower(m)
\* is no key of the table; an empty mode string leaves the previous mode.
C10_ModeTableLowerCased ==
    (Resulted /\ Last.outcome = "merged" /\ Last.msg.state # None) =>
        LET m == Last.msg.state[1]
            d == Last.msg.cookerId[1]
        IN  devices[d] =
              CASE m \in {"cook", "cooking", "COOK"} -> Some("cooking")
                [] m \in {"preheat", "preheating"} -> Some("preheating")
                [] m \in {"paused", "Paused"} -> Some("paused")
                [] m \in {"completed", "error", "idle"} -> Some(m)
                [] m = "" -> Last.pre_devices[d]
                [] OTHER -> Some("idle")

\* an unrecognized mode string has replaced the mode cooking by idle
C10_Witness ==
    /\ Resulted /\ Last.outcome = "merged"
    /\ Last.msg.state = Some("unknownfoo")
    /\ \E d \in DeviceIds :
         /\ Last.msg.cookerId = Some(d)
         /\ Last.pre_devices[d] = Some("cooking")
         /\ devices[d] = Some("idle")

----------------------------------------------------------------------------
(* C11 *)

\* C11: a state event whose processing fails part-way is dropped as a whole:
\* the stored state of the addressed oven, as get_state_data returns it, and
\* its operating mode are the ones from before the message.
C11_FailedDroppedWhole ==
    (Resulted /\ Last.outcome = "failed") =>
        LET d == Last.msg.cookerId[1]
        IN  /\ get_state_data(device_state_data, d) = get_state_data(Last.pre_data, d)
            /\ devices[d] = Last.pre_devices[d]

----------------------------------------------------------------------------
(* C12 *)

\* C12: a state event addressed to oven A, malformed or not, leaves the
\* stored state and the operating mode of every other oven as they were, and
\* no exception leaves the handler.
C12_ErrorIsolation ==
    (Resulted /\ IsStateEvent(Last.msg) /\ Last.msg.cookerId # None) =>
        /\ \A b \in DeviceIds \ {Last.msg.cookerId[1]} :
              /\ devices[b] = Last.pre_devices[b]
              /\ device_state_data[b] = Last.pre_data[b]
        /\ ~Last.escaped

\* a message for one oven failed while another oven was cooking with nodes stored
C12_Witness ==
    /\ Resulted /\ Last.outcome = "failed"
    /\ \E a, b \in DeviceIds :
         /\ a # b /\ Last.msg.cookerId = Some(a)
         /\ device_state_data[a] # Last.pre_data[a]
         /\ devices[b] = Some("cooking")
         /\ StoredKey(device_state_data[b], "nodes") # None

----------------------------------------------------------------------------
(* C13 *)

\* C13: whatever poll cycles (reconnect and rediscovery included) have run
\* since, the stored state of every oven and the operating mode of every oven
\* known at that time are the ones the most recent push message left; before
\* the first push message nothing is stored.
C13_PollKeepsPushState ==
    IF last_call = None
    THEN \A d \in DeviceIds : device_state_data[d] = None
    ELSE LET r == HandleResult(Last.pre_devices, Last.pre_data, RawMessage(Last.msg))
         IN  /\ device_state_data = r.data
             /\ \A d \in DeviceIds : r.devices[d] # None => devices[d] = r.devices[d]

\* a steady cycle that reconnected and rediscovered has ended, and the oven
\* that was cooking with nodes stored when it began still is
C13_Witness ==
    /\ pc = "idle" /\ cycle.result = "ok" /\ cycle.steady
    /\ cycle.calls = <<"connect", "discover">>
    /\ \E d \in Paired :
         /\ cycle.pre_devices[d] = Some("cooking")
         /\ devices[d] = Some("cooking")
         /\ StoredKey(device_state_data[d], "nodes") # None

----------------------------------------------------------------------------
(* C14 *)

\* every content key the message carries is stored with the message's value
AllWritten(m, sd) ==
    /\ m.nodes # None =>
         /\ NodesValid(RawNodes(m.nodes[1]))
         /\ sd.nodes = Some(NodesValidate(RawNodes(m.nodes[1])))
    /\ m.state # None => sd.state_info = Some([mode |-> m.state[1]])
    /\ m.systemInfo # None =>
         /\ SystemInfoValid(RawSystemInfo(m.systemInfo[1]))
         /\ sd.system_info = Some(SystemInfoValidate(RawSystemInfo(m.systemInfo[1])))
    /\ m.version # None => sd.version = m.version
    /\ m.updatedTimestamp # None => sd.updated_timestamp = m.updatedTimestamp

\* C14: the handler calls for one oven run one after the other, and what a
\* reader gets from get_state_data between two of them never holds only a
\* part of a message: it holds every key of the last message for that oven,
\* or it is what was stored before that message.
C14_NoPartialWrite ==
    (Resulted /\ IsStateEvent(Last.msg) /\ Last.msg.cookerId # None
       /\ Last.pre_devices[Last.msg.cookerId[1]] # None) =>
        LET d == Last.msg.cookerId[1]
        IN  \/ AllWritten(Last.msg, get_state_data(device_state_data, d))
            \/ /\ get_state_data(device_state_data, d) = get_state_data(Last.pre_data, d)
               /\ devices[d] = Last.pre_devices[d]

----------------------------------------------------------------------------
(* C15 *)

\* C15: the cycle that completes the initial setup has opened the channel
\* (unless an earlier, failed cycle had already opened it), then run one
\* discovery round, then one recipe load, and only then set the setup-done
\* flag: the first cycle of all does the three in this order; the flag is
\* never set without a library, and a loader that raised leaves setup done
\* with an empty library.
C15_StartUpOrder ==
    /\ (pc = "idle" /\ cycle.result = "ok" /\ ~cycle.steady) =>
         /\ initial_setup_done
         /\ cycle.calls = IF cycle.found_connected
                          THEN <<"discover", "load_recipes">>
                          ELSE <<"connect", "discover", "load_recipes">>
    /\ (refresh_count = 1 /\ pc = "idle" /\ cycle.result = "ok") =>
         cycle.calls = <<"connect", "discover", "load_recipes">>
    /\ initial_setup_done <=> recipe_library # None
    /\ (pc # "idle" /\ ~cycle.steady) => ~initial_setup_done
    /\ cycle.load_outcome = Some("error") =>
         initial_setup_done /\ recipe_library = Some({})

\* the first cycle has completed the setup although the recipe loader raised
C15_Witness ==
    /\ refresh_count = 1 /\ pc = "idle" /\ cycle.result = "ok"
    /\ cycle.load_outcome = Some("error")
    /\ initial_setup_done /\ recipe_library = Some({})
    /\ \E d \in Paired : devices[d] # None

----------------------------------------------------------------------------
(* C16 *)

----------------------------------------------------------------------------
(* C17 *)

\* C17: a connect or discover_devices call that failed in one cycle is made
\* again by the next cycle: no cycle returns normally while the call that
\* failed last has not been made again.
C17_RetriedNextTick ==
    (pc = "idle" /\ cycle.result = "ok") => cycle.retry_due = None

----------------------------------------------------------------------------
(* C18 *)

\* the step in which the awaited connect or discover_devices call raises
CallFails ==
    /\ pc \in {"connect", "discover"} /\ pc' = "idle"
    /\ cycle'.retry_due = Some(pc)

\* C18: the cycle whose connect or discover_devices call raises ends with
\* UpdateFailed, and the failing call leaves the known ovens, their operating
\* modes and the stored state of every oven as they were.
C18_FailedCycleKeepsState ==
    [][CallFails =>
         /\ cycle'.result = "UpdateFailed"
         /\ devices' = devices
         /\ device_state_data' = device_state_data]_vars

\* a rediscovery after a reconnect has failed for an oven with stored state
C18_Witness ==
    /\ pc = "idle" /\ cycle.result = "UpdateFailed"
    /\ cycle.calls = <<"connect", "discover">>
    /\ devices = cycle.pre_devices
    /\ \E d \in Paired : devices[d] # None /\ device_state_data[d] # None

----------------------------------------------------------------------------
(* C19 *)

\* C19: the coordinator is removed from hass.data only after the refresh
\* timer has been stopped and the push channel has been detached: whenever an
\* unload has removed it, no timer is running and the channel is closed, so
\* that no push message is delivered any more.
C19_TeardownOrder ==
    config_entry \in {"popped", "disconnected", "shutdown"} =>
        /\ ~TimerRunning(config_entry)
        /\ ~is_connected

----------------------------------------------------------------------------
(* C20 *)

\* the calls of the current or last cycle, as a set
CycleCalls == {cycle.calls[i] : i \in DOMAIN cycle.calls}

\* C20: every refresh cycle, not only the first, performs a discovery round:
\* a cycle that has returned normally has called discover_devices, so that
\* n such cycles make at least n calls.
C20_DiscoveryEveryRefresh ==
    (pc = "idle" /\ cycle.result = "ok") => "discover" \in CycleCalls

----------------------------------------------------------------------------
(* C21: a failing command raises UpdateFailed and requests no refresh *)

\* C21: when the sender of a command method fails, the coordinator raises
\* UpdateFailed and requests no refresh; a refresh is requested only after the
\* command succeeded.  Violated: the AnovaError of the sender leaves the method
\* as it is, nothing wraps it in UpdateFailed
C21_CommandErrorsWrapped ==
    last_command # None =>
        LET c == last_command[1]
        IN  /\ c.refresh_requested <=> c.raised = "none"
            /\ c.raised # "none" => c.raised = "UpdateFailed"

----------------------------------------------------------------------------
(* C22: get_device returns the device or None and never raises *)

\* C22: get_device(device_id) returns the device when the id is in the
\* coordinator's data and None, without raising, otherwise, also while no
\* refresh has completed and the coordinator holds no data.  Violated in the
\* state after construction: data is None and None.get raises AttributeError
C22_GetDeviceNeverRaises ==
    \A d \in DeviceIds :
        LET r == get_device(coordinator_data, devices, d)
        IN  /\ r.raised = "none"
            /\ r.value = IF coordinator_data = None THEN None ELSE devices[d]

----------------------------------------------------------------------------
(* C23: the coordinator is registered only after a successful first refresh *)

\* the step in which the first refresh of async_setup_entry returns or raises
FirstRefreshEnds == config_entry = "setup" /\ pc # "idle" /\ pc' = "idle"

\* C23: async_setup_entry registers the coordinator in hass.data and forwards
\* the platforms only after the first refresh succeeded: the entry becomes
\* registered only in the step that ends the first refresh without error,
\* with connect, discovery and the recipe load done; a first refresh whose
\* connect or discovery fails ends in ConfigEntryNotReady with nothing
\* registered, and a later refresh of that coordinator registers nothing.
C23_RegisteredAfterFirstRefresh ==
    [][/\ (~InHassData(config_entry) /\ InHassData(config_entry')) =>
             /\ FirstRefreshEnds
             /\ cycle'.result = "ok" /\ initial_setup_done'
             /\ \E i \in DOMAIN cycle'.calls : cycle'.calls[i] = "discover"
             /\ coordinator_data' # None
       /\ (FirstRefreshEnds /\ CallFails) =>
             /\ cycle'.result = "UpdateFailed"
             /\ config_entry' = "not_ready"
             /\ ~InHassData(config_entry')
       /\ config_entry = "not_ready" => config_entry' = "not_ready"
      ]_vars

\* the first refresh connected and then failed in discovery: the setup has
\* raised ConfigEntryNotReady and the coordinator is in no registry
C23_Witness ==
    /\ config_entry = "not_ready" /\ ~InHassData(config_entry)
    /\ refresh_count = 1 /\ pc = "idle"
    /\ cycle.calls = <<"connect", "discover">> /\ cycle.result = "UpdateFailed"

----------------------------------------------------------------------------
(* C24: async_unload_entry shuts down iff the platforms unloaded *)

\* the step in which async_unload_entry got unload_ok from the platforms
UnloadReturns(unload_ok) ==
    last_unload' # last_unload /\ last_unload' = Some(unload_ok)

\* C24: async_unload_entry removes the coordinator from hass.data and shuts it
\* down, disconnecting the push channel, if and only if unloading the
\* platforms succeeded; when it failed the coordinator stays registered, the
\* channel stays as it was and the stored state is unchanged.
C24_UnloadIffPlatformsUnloaded ==
    [][/\ UnloadReturns(FALSE) =>
             /\ InHassData(config_entry') /\ config_entry' = config_entry
             /\ is_connected' = is_connected
             /\ UNCHANGED <<devices, device_state_data, coordinator_data, pc>>
       /\ UnloadReturns(TRUE) =>
             /\ ~InHassData(config_entry') /\ config_entry' = "popped"
       /\ (InHassData(config_entry) /\ ~InHassData(config_entry')) =>
             UnloadReturns(TRUE)
       /\ config_entry' \in {"popped", "disconnected", "shutdown"} =>
             last_unload' = Some(TRUE)
       /\ (config_entry = "popped" /\ config_entry' # "popped") =>
             /\ config_entry' = "disconnected" /\ ~is_connected'
      ]_vars

\* the platforms refused to unload: the coordinator is still registered and
\* connected and holds the state a push stored before
C24_Witness ==
    /\ last_unload = Some(FALSE)
    /\ config_entry = "loaded" /\ is_connected
    /\ device_state_data["D1"] # None /\ devices["D1"] = Some("cooking")

----------------------------------------------------------------------------
(* C25: one merge and at most one notification per message *)

\* C25: each push message produces at most one merge and at most one
\* invocation of the update callback, and that invocation happens after all of
\* the message's writes: the callback finds stored exactly what the handler
\* leaves behind, and no oven but the addressed one is touched.
C25_OneMergeOneCallback ==
    Resulted =>
        /\ Last.callbacks <= 1
        /\ Last.called <=> Last.callbacks = 1
        /\ Last.callbacks = 1 =>
             LET d == Last.msg.cookerId[1]
             IN  /\ Last.outcome = "merged"
                 /\ Last.seen = Some([sd |-> get_state_data(device_state_data, d),
                                       state |-> devices[d][1]])
        /\ \A x \in DeviceIds :
             (Last.msg.cookerId # Some(x)) =>
                 /\ devices[x] = Last.pre_devices[x]
                 /\ device_state_data[x] = Last.pre_data[x]

\* with setup done, a message carrying nodes and a state has been merged and
\* has notified once
C25_Witness ==
    /\ Resulted /\ initial_setup_done /\ Last.outcome = "merged"
    /\ {"nodes", "state"} \subseteq Keys(Last.msg)
    /\ Last.callbacks = 1
    /\ Last.pre_data[Last.msg.cookerId[1]] # None

----------------------------------------------------------------------------
(* C26: no eviction from the per-device state store *)

\* C26: once a device id has an entry in _device_state_data, no push message
\* and no step of a poll cycle removes, empties or recreates it: the entry
\* stays and every key stored in it stays stored.
C26_NoEviction ==
    [][\A d \in DeviceIds :
          device_state_data[d] # None =>
              /\ device_state_data'[d] # None
              /\ \A k \in ContentKeys :
                    StoredKey(device_state_data[d], k) # None =>
                        StoredKey(device_state_data'[d], k) # None
      ]_vars

\* the entry of D1 held nodes before a steady poll cycle ran and a message
\* without nodes was merged; the nodes are still stored
C26_Witness ==
    /\ Resulted /\ Last.outcome = "merged" /\ Last.msg.cookerId = Some("D1")
    /\ Keys(Last.msg) = {"state"}
    /\ StoredKey(Last.pre_data["D1"], "nodes") # None
    /\ StoredKey(device_state_data["D1"], "nodes") # None
    /\ cycle.steady /\ cycle.result = "ok" /\ refresh_count >= 2

----------------------------------------------------------------------------
(* C27: a reload leaves one live coordinator *)

\* the coordinators of the entry on which async_shutdown has not completed
LiveCoordinators ==
    not_shut_down + (IF config_entry = "shutdown" THEN 0 ELSE 1)

\* C27: async_reload_entry shuts the old coordinator down before the new one
\* is set up, so at most one coordinator that has not been shut down exists
\* for the entry, also after a reload whose platform unload failed.
\* Violated: after a failed platform unload the old coordinator is neither
\* popped nor shut down, and async_setup_entry constructs a second one
C27_OneLiveCoordinator == LiveCoordinators <= 1

----------------------------------------------------------------------------
(* C28: the setup-done flag *)

----------------------------------------------------------------------------
(* C29: shutdown is final *)

\* C29: no poll cycle reconnects the channel once async_shutdown has begun:
\* when async_shutdown has completed the push channel is disconnected, and it
\* stays disconnected.  Violated: a cycle that is waiting in connect() when
\* the shutdown runs, or that a tick starts between disconnect() and the stop
\* of the timer, connects the channel again after it was closed
C29_ShutdownFinal ==
    config_entry = "shutdown" => ~is_connected

----------------------------------------------------------------------------
(* C30: messages that carry nothing change nothing *)

\* the last message is of another command, or a state event for a known oven
\* that carries none of the recognized keys
CarriesNothing ==
    \/ ~IsStateEvent(Last.msg)
    \/ /\ IsStateEvent(Last.msg) /\ Keys(Last.msg) = {}
       /\ Last.msg.cookerId # None
       /\ Last.pre_devices[Last.msg.cookerId[1]] # None

\* C30: a push message whose command is not EVENT_APO_STATE, or a state event
\* for a known oven without any of the keys nodes, state, systemInfo, version
\* and updatedTimestamp, changes no stored field and no operating mode of any
\* oven and does not invoke the update callback.
C30_NothingCarriedNothingChanged ==
    (Resulted /\ CarriesNothing) =>
        /\ ~Last.called /\ Last.callbacks = 0
        /\ \A d \in DeviceIds :
              /\ devices[d] = Last.pre_devices[d]
              /\ get_state_data(device_state_data, d) = get_state_data(Last.pre_data, d)

\* an oven that is cooking, with its state stored, received a state event
\* without any recognized key
C30_Witness ==
    /\ Resulted /\ IsStateEvent(Last.msg) /\ Keys(Last.msg) = {}
    /\ Last.msg.cookerId = Some("D1")
    /\ Last.pre_devices["D1"] = Some("cooking")
    /\ StoredKey(Last.pre_data["D1"], "state") # None
    /\ Last.outcome = "merged"

====
